---- MODULE Spec2Model ----
(***************************************************************************)
(* Template test-case synthesis, traceability and coverage metrics of the  *)
(* test engine (src/test_engine.py), as a state machine of one host        *)
(* request: generate_test_cases, then create_traceability_matrix, then     *)
(* calculate_coverage_metrics.                                             *)
(*                                                                         *)
(* Python values: a str is a sequence of one-character strings; a list is  *)
(* a sequence; a dict with ordered keys is a sequence of <<key, value>>    *)
(* pairs (insertion order); a dict with fixed keys is a record or a        *)
(* function on its keys.  A value of the requirement mapping carries its   *)
(* Python type: [t |-> "str" | "list" | "dict", v |-> the value].          *)
(* Floats rounded to 2 decimals are integers counting hundredths.          *)
(***************************************************************************)
EXTENDS Integers, Sequences, FiniteSets, TLC

\* ------------------------------------------------------------------ bounds

MaxFields == 2
MaxEdgeCases == 1
MaxRoles == 1

\* ------------------------------------------------------------------- state

\* one host request on one TestArtifactGenerator
VARIABLES
    engine_genai,     \* self.genai is set: an AI backend was initialized
    ai_backend,       \* what the AI backend does when it is called
    ai_calls,         \* how many times _generate_test_cases_ai was called
    pc,               \* "idle", "generated", "regenerated", "scripted", "traced",
                      \* "measured", "covered"
    request,          \* the requirement mapping of the request
    session_cases,    \* the list the last generate_test_cases call returned
    first_cases,      \* the list the call before it returned
    path,             \* the path the last call took: "invalid", "ai", "template"
    java_code,        \* the result of generate_selenium_java
    matrix,           \* the result of create_traceability_matrix
    metrics,          \* the result of calculate_coverage_metrics
    coverage          \* the result of metrics.calculate_coverage

\* template synthesis calls running in parallel threads, one frame per call
VARIABLES
    call_req,         \* the requirement each call was given
    call_pc,          \* where each call is: "idle", a loop, "boundary", "done"
    call_i,           \* the index of each call's current loop
    call_cases,       \* the local test_cases of each call
    counters          \* the id counters

hostVars ==
    <<engine_genai, ai_backend, ai_calls, pc, request, session_cases, first_cases, path, java_code, matrix,
      metrics, coverage>>
callVars == <<call_req, call_pc, call_i, call_cases, counters>>
vars == <<hostVars, callVars>>

\* ------------------------------------------------------------- str methods

UpperChars == <<"A","B","C","D","E","F","G","H","I","J","K","L","M",
                "N","O","P","Q","R","S","T","U","V","W","X","Y","Z">>
LowerChars == <<"a","b","c","d","e","f","g","h","i","j","k","l","m",
                "n","o","p","q","r","s","t","u","v","w","x","y","z">>
DigitChars == <<"0","1","2","3","4","5","6","7","8","9">>

\* the lower-case letter of each upper-case letter
ToLower ==
    [c \in {UpperChars[i] : i \in 1..26} |->
        LowerChars[CHOOSE i \in 1..26 : UpperChars[i] = c]]
LowerChar(c) == IF c \in DOMAIN ToLower THEN ToLower[c] ELSE c

\* str.lower()
Lower(s) == [i \in 1..Len(s) |-> LowerChar(s[i])]

\* needle in hay
Contains(needle, hay) ==
    \E i \in 0..(Len(hay) - Len(needle)) : \A k \in 1..Len(needle) : hay[i + k] = needle[k]

IsDigitChar(c) == \E i \in 1..10 : DigitChars[i] = c
DigitValue(c) == (CHOOSE i \in 1..10 : DigitChars[i] = c) - 1

\* str.isdigit(): non-empty and every character a digit
IsDigit(s) == Len(s) > 0 /\ \A i \in 1..Len(s) : IsDigitChar(s[i])

\* int(s) of a digit string
RECURSIVE ToInt(_)
ToInt(s) ==
    IF Len(s) = 0 THEN 0
    ELSE 10 * ToInt(SubSeq(s, 1, Len(s) - 1)) + DigitValue(s[Len(s)])

\* str.split(): the maximal runs of non-space characters, in order
RECURSIVE SplitFrom(_, _, _)
SplitFrom(s, i, cur) ==
    IF i > Len(s) THEN (IF Len(cur) > 0 THEN <<cur>> ELSE <<>>)
    ELSE IF s[i] = " "
         THEN (IF Len(cur) > 0 THEN <<cur>> ELSE <<>>) \o SplitFrom(s, i + 1, <<>>)
         ELSE SplitFrom(s, i + 1, Append(cur, s[i]))
Split(s) == SplitFrom(s, 1, <<>>)

\* decimal digits of n >= 0, most significant first
RECURSIVE NatToStr(_)
NatToStr(n) ==
    IF n < 10 THEN <<DigitChars[n + 1]>>
    ELSE NatToStr(n \div 10) \o <<DigitChars[(n % 10) + 1]>>

\* str(n) as an f-string substitutes an int
IntToStr(n) == IF n < 0 THEN <<"-">> \o NatToStr(0 - n) ELSE NatToStr(n)

\* f"{n:03d}": at least 3 digits, padded with zeros on the left
RECURSIVE ZeroPad(_, _)
ZeroPad(s, width) == IF Len(s) >= width THEN s ELSE ZeroPad(<<"0">> \o s, width)
Format03d(n) == ZeroPad(IntToStr(n), 3)

\* ------------------------------------------------------ requirement mapping

Str(s) == [t |-> "str", v |-> s]
List(l) == [t |-> "list", v |-> l]
Dict(d) == [t |-> "dict", v |-> d]

\* the dict literal {"feature": .., "fields": .., "validations": .., "roles": .., "edge_cases": ..}
Requirement(feature, fields, validations, roles, edge_cases) ==
    ("feature" :> Str(feature)) @@ ("fields" :> List(fields))
    @@ ("validations" :> Dict(validations)) @@ ("roles" :> List(roles))
    @@ ("edge_cases" :> List(edge_cases))

\* the mapping without the keys of drop
WithoutKeys(d, drop) == [k \in (DOMAIN d) \ drop |-> d[k]]

\* the mapping with key k set to value x
WithKey(d, k, x) == (k :> x) @@ d

\* dict.get(key, default) where the default is a list or a dict ([] or {})
GetOr(d, k, default) == IF k \in DOMAIN d THEN d[k].v ELSE default

\* ------------------------------------------------------------ _validate_input

required_keys == <<"feature", "fields", "validations", "roles", "edge_cases">>

\* an error message is the sequence of the pieces its f-string joins
MissingKeys(structured_data) ==
    SelectSeq(required_keys, LAMBDA key : key \notin DOMAIN structured_data)

RECURSIVE JoinPieces(_, _)
JoinPieces(sep, parts) ==
    IF Len(parts) = 0 THEN <<>>
    ELSE IF Len(parts) = 1 THEN <<parts[1]>>
    ELSE <<parts[1], sep>> \o JoinPieces(sep, Tail(parts))

\* (is_valid, error_message)
ValidateInput(structured_data) ==
    LET missing_keys == MissingKeys(structured_data) IN
    IF Len(missing_keys) > 0
    THEN <<FALSE, <<"Missing required keys: ">> \o JoinPieces(", ", missing_keys)>>
    ELSE IF structured_data["fields"].t # "list"
    THEN <<FALSE, <<"'fields' must be a list">>>>
    ELSE IF structured_data["validations"].t # "dict"
    THEN <<FALSE, <<"'validations' must be a dictionary">>>>
    ELSE IF structured_data["roles"].t # "list"
    THEN <<FALSE, <<"'roles' must be a list">>>>
    ELSE IF structured_data["edge_cases"].t # "list"
    THEN <<FALSE, <<"'edge_cases' must be a list">>>>
    ELSE <<TRUE, <<>>>>

\* ------------------------------------------- _generate_test_cases_template

TcId(tc_counter) == <<"T","C","_">> \o Format03d(tc_counter)

OpenPageStep(feature) == <<"O","p","e","n"," ">> \o feature \o <<" ","p","a","g","e">>

FieldCase(feature, field, tc_counter) ==
    [tc_id |-> TcId(tc_counter),
     title |-> <<"V","a","l","i","d"," ">> \o feature \o <<" ","w","i","t","h"," ","c","o","r","r","e","c","t"," ">> \o field,
     type |-> "Positive",
     steps |-> <<OpenPageStep(feature),
                 <<"E","n","t","e","r"," ","v","a","l","i","d"," ">> \o field,
                 <<"S","u","b","m","i","t"," ","t","h","e"," ","f","o","r","m">>,
                 <<"V","e","r","i","f","y"," ","s","u","b","m","i","s","s","i","o","n">>>>,
     expected_result |-> feature \o <<" ","s","u","c","c","e","s","s","f","u","l"," ","w","i","t","h"," ","v","a","l","i","d"," ">> \o field]

ValidationCase(feature, field, validation, tc_counter) ==
    [tc_id |-> TcId(tc_counter),
     title |-> <<"I","n","v","a","l","i","d"," ">> \o feature \o <<" ","-"," ">> \o field \o <<" ","f","a","i","l","s"," ">> \o validation,
     type |-> "Negative",
     steps |-> <<OpenPageStep(feature),
                 <<"E","n","t","e","r"," ","i","n","v","a","l","i","d"," ">> \o field \o <<" ","(","v","i","o","l","a","t","e","s",":"," ">> \o validation \o <<")">>,
                 <<"S","u","b","m","i","t"," ","t","h","e"," ","f","o","r","m">>,
                 <<"V","e","r","i","f","y"," ","e","r","r","o","r"," ","m","e","s","s","a","g","e">>>>,
     expected_result |-> <<"E","r","r","o","r"," ","m","e","s","s","a","g","e"," ","d","i","s","p","l","a","y","e","d",":"," ">> \o validation \o <<" ","v","a","l","i","d","a","t","i","o","n"," ","f","a","i","l","e","d">>]

BoundaryCase(feature, field, validation, boundary_val, tc_counter) ==
    [tc_id |-> TcId(tc_counter),
     title |-> <<"B","o","u","n","d","a","r","y"," ","t","e","s","t"," ","f","o","r"," ">> \o field \o <<" ","-"," ">> \o validation,
     type |-> "Boundary",
     steps |-> <<OpenPageStep(feature),
                 <<"E","n","t","e","r"," ">> \o field \o <<" ","w","i","t","h"," ","b","o","u","n","d","a","r","y"," ","v","a","l","u","e"," ","(">>
                     \o IntToStr(boundary_val - 1) \o <<","," ">> \o IntToStr(boundary_val)
                     \o <<","," ">> \o IntToStr(boundary_val + 1) \o <<")">>,
                 <<"S","u","b","m","i","t"," ","t","h","e"," ","f","o","r","m">>,
                 <<"V","e","r","i","f","y"," ","b","e","h","a","v","i","o","r"," ","a","t"," ","b","o","u","n","d","a","r","y">>>>,
     expected_result |-> <<"C","o","r","r","e","c","t"," ","b","e","h","a","v","i","o","r"," ","a","t"," ">> \o validation \o <<" ","b","o","u","n","d","a","r","y">>]

\* faulty variant: the edge-case case is given the kind of the field cases
EdgeCasePositive(feature, edge_case, tc_counter) ==
    [tc_id |-> TcId(tc_counter),
     title |-> feature \o <<" ","w","i","t","h"," ">> \o edge_case,
     type |-> "Positive",
     steps |-> <<OpenPageStep(feature),
                 <<"T","e","s","t"," ","w","i","t","h"," ">> \o edge_case,
                 <<"S","u","b","m","i","t"," ","t","h","e"," ","f","o","r","m">>,
                 <<"V","e","r","i","f","y"," ","s","y","s","t","e","m"," ","h","a","n","d","l","e","s"," ","e","d","g","e"," ","c","a","s","e">>>>,
     expected_result |-> <<"S","y","s","t","e","m"," ","p","r","o","p","e","r","l","y"," ","h","a","n","d","l","e","s"," ">> \o edge_case \o <<" ","s","c","e","n","a","r","i","o">>]

EdgeCase(feature, edge_case, tc_counter) ==
    [tc_id |-> TcId(tc_counter),
     title |-> feature \o <<" ","w","i","t","h"," ">> \o edge_case,
     type |-> "Negative",
     steps |-> <<OpenPageStep(feature),
                 <<"T","e","s","t"," ","w","i","t","h"," ">> \o edge_case,
                 <<"S","u","b","m","i","t"," ","t","h","e"," ","f","o","r","m">>,
                 <<"V","e","r","i","f","y"," ","s","y","s","t","e","m"," ","h","a","n","d","l","e","s"," ","e","d","g","e"," ","c","a","s","e">>>>,
     expected_result |-> <<"S","y","s","t","e","m"," ","p","r","o","p","e","r","l","y"," ","h","a","n","d","l","e","s"," ">> \o edge_case \o <<" ","s","c","e","n","a","r","i","o">>]

\* the last step is a plain string, not an f-string: its braces stay
RoleCase(feature, role, tc_counter) ==
    [tc_id |-> TcId(tc_counter),
     title |-> feature \o <<" ","a","c","c","e","s","s"," ","f","o","r"," ">> \o role \o <<" ","r","o","l","e">>,
     type |-> "Positive",
     steps |-> <<<<"L","o","g","i","n"," ","a","s"," ">> \o role,
                 <<"A","c","c","e","s","s"," ">> \o feature \o <<" ","f","e","a","t","u","r","e">>,
                 <<"V","e","r","i","f","y"," ","a","c","c","e","s","s"," ","p","e","r","m","i","s","s","i","o","n","s">>,
                 <<"P","e","r","f","o","r","m"," ","{","f","e","a","t","u","r","e","}"," ","o","p","e","r","a","t","i","o","n">>>>,
     expected_result |-> role \o <<" ","c","a","n"," ","a","c","c","e","s","s"," ","a","n","d"," ","u","s","e"," ">> \o feature \o <<" ","f","e","a","t","u","r","e"," ","c","o","r","r","e","c","t","l","y">>]

\* faulty variant: the rule text is searched as written, not lower-cased
MentionsMinMaxCased(validation) ==
    Contains(<<"m","i","n">>, validation) \/ Contains(<<"m","a","x">>, validation)

\* "min" in validation.lower() or "max" in validation.lower()
MentionsMinMax(validation) ==
    Contains(<<"m","i","n">>, Lower(validation)) \/ Contains(<<"m","a","x">>, Lower(validation))

\* numbers = [int(s) for s in validation.split() if s.isdigit()]
Numbers(validation) ==
    LET digit_tokens == SelectSeq(Split(validation), IsDigit)
    IN [i \in 1..Len(digit_tokens) |-> ToInt(digit_tokens[i])]

\* whether the loop body of a validation entry appends a Boundary case
HasBoundary(validation) == MentionsMinMax(validation) /\ Len(Numbers(validation)) > 0

\* faulty variant: the counter goes on from the list the session already holds
TcCounterCarried == Len(session_cases) + 1

\* the locals of one call: the list built so far and the id counter
TcCounterStart == 1
NewCall == [test_cases |-> <<>>, tc_counter |-> TcCounterStart]

\* test_cases.append(case); tc_counter += 1
Emit(st, case) ==
    [test_cases |-> Append(st.test_cases, case), tc_counter |-> st.tc_counter + 1]

EmitField(st, feature, field) == Emit(st, FieldCase(feature, field, st.tc_counter))

EmitNegative(st, feature, entry) ==
    Emit(st, ValidationCase(feature, entry[1], entry[2], st.tc_counter))

\* faulty variant: the Boundary case is appended without tc_counter += 1
EmitBoundarySameId(st, feature, entry) ==
    [test_cases |->
         Append(st.test_cases,
                BoundaryCase(feature, entry[1], entry[2], Numbers(entry[2])[1], st.tc_counter)),
     tc_counter |-> st.tc_counter]

EmitBoundary(st, feature, entry) ==
    Emit(st, BoundaryCase(feature, entry[1], entry[2], Numbers(entry[2])[1], st.tc_counter))

\* faulty variant: the Boundary case is appended before the Negative case
EmitValidationBoundaryFirst(st, feature, entry) ==
    IF HasBoundary(entry[2])
    THEN EmitNegative(EmitBoundary(st, feature, entry), feature, entry)
    ELSE EmitNegative(st, feature, entry)

\* faulty variant: the Boundary case replaces the Negative case instead of following it
EmitValidationEither(st, feature, entry) ==
    IF HasBoundary(entry[2]) THEN EmitBoundary(st, feature, entry)
    ELSE EmitNegative(st, feature, entry)

\* one iteration of the loop over validations.items()
EmitValidation(st, feature, entry) ==
    LET negative == EmitNegative(st, feature, entry)
    IN IF HasBoundary(entry[2]) THEN EmitBoundary(negative, feature, entry) ELSE negative

EmitEdge(st, feature, edge_case) == Emit(st, EdgeCase(feature, edge_case, st.tc_counter))

EmitRole(st, feature, role) == Emit(st, RoleCase(feature, role, st.tc_counter))

\* for field in structured_data['fields']
RECURSIVE FieldLoop(_, _, _, _)
FieldLoop(st, feature, fields, i) ==
    IF i > Len(fields) THEN st
    ELSE FieldLoop(EmitField(st, feature, fields[i]), feature, fields, i + 1)

\* for field, validation in structured_data['validations'].items()
RECURSIVE ValidationLoop(_, _, _, _)
ValidationLoop(st, feature, validations, i) ==
    IF i > Len(validations) THEN st
    ELSE ValidationLoop(EmitValidation(st, feature, validations[i]), feature, validations, i + 1)

\* for edge_case in structured_data['edge_cases']
RECURSIVE EdgeLoop(_, _, _, _)
EdgeLoop(st, feature, edge_cases, i) ==
    IF i > Len(edge_cases) THEN st
    ELSE EdgeLoop(EmitEdge(st, feature, edge_cases[i]), feature, edge_cases, i + 1)

\* for role in structured_data['roles']
RECURSIVE RoleLoop(_, _, _, _)
RoleLoop(st, feature, roles, i) ==
    IF i > Len(roles) THEN st
    ELSE RoleLoop(EmitRole(st, feature, roles[i]), feature, roles, i + 1)

\* faulty variant: the loop over roles runs before the loop over edge cases
GenerateTestCasesRolesFirst(structured_data) ==
    LET feature == structured_data["feature"].v
        afterFields == FieldLoop(NewCall, feature, structured_data["fields"].v, 1)
        afterValidations ==
            ValidationLoop(afterFields, feature, structured_data["validations"].v, 1)
        afterRoles == RoleLoop(afterValidations, feature, structured_data["roles"].v, 1)
        afterEdges == EdgeLoop(afterRoles, feature, structured_data["edge_cases"].v, 1)
    IN afterEdges.test_cases

GenerateTestCasesTemplate(structured_data) ==
    LET feature == structured_data["feature"].v
        afterFields == FieldLoop(NewCall, feature, structured_data["fields"].v, 1)
        afterValidations ==
            ValidationLoop(afterFields, feature, structured_data["validations"].v, 1)
        afterEdges == EdgeLoop(afterValidations, feature, structured_data["edge_cases"].v, 1)
        afterRoles == RoleLoop(afterEdges, feature, structured_data["roles"].v, 1)
    IN afterRoles.test_cases


\* ------------------------------------------------ create_traceability_matrix

\* str.upper() and str.replace(old, new) on single characters
ToUpper ==
    [c \in {LowerChars[i] : i \in 1..26} |->
        UpperChars[CHOOSE i \in 1..26 : LowerChars[i] = c]]
UpperChar(c) == IF c \in DOMAIN ToUpper THEN ToUpper[c] ELSE c
Upper(s) == [i \in 1..Len(s) |-> UpperChar(s[i])]
ReplaceChar(s, old, new) == [i \in 1..Len(s) |-> IF s[i] = old THEN new ELSE s[i]]

\* tc.get('title', '')
TitleOf(tc) == IF "title" \in DOMAIN tc THEN tc.title ELSE <<>>

\* faulty variant: the title is searched as written, not lower-cased
MentionsCased(tc, element) == Contains(element, TitleOf(tc))

\* element.lower() in tc.get('title', '').lower()
Mentions(tc, element) == Contains(Lower(element), Lower(TitleOf(tc)))

\* faulty variant: an error element anywhere makes the list invalid
InvalidTestCasesAnyError(test_cases) ==
    Len(test_cases) = 0 \/ \E i \in 1..Len(test_cases) : "error" \in DOMAIN test_cases[i]

\* faulty variant: the empty list is not rejected
InvalidTestCasesSentinelOnly(test_cases) ==
    Len(test_cases) > 0 /\ "error" \in DOMAIN test_cases[1]

\* not test_cases or "error" in test_cases[0]
InvalidTestCases(test_cases) ==
    Len(test_cases) = 0 \/ "error" \in DOMAIN test_cases[1]

\* faulty variant: a case covers an element only if its title is the element's text
CoveringIdsExactTitle(element, test_cases) ==
    LET hits == SelectSeq(test_cases, LAMBDA tc : Lower(TitleOf(tc)) = Lower(element))
    IN [i \in 1..Len(hits) |-> hits[i].tc_id]

\* [tc['tc_id'] for tc in test_cases if element.lower() in tc.get('title', '').lower()]
CoveringIds(element, test_cases) ==
    LET hits == SelectSeq(test_cases, LAMBDA tc : Mentions(tc, element))
    IN [i \in 1..Len(hits) |-> hits[i].tc_id]

\* tc['tc_id'] raises KeyError for a matching case without that key
CoveringIdsRaises(elements, test_cases) ==
    \E i \in 1..Len(elements), j \in 1..Len(test_cases) :
        Mentions(test_cases[j], elements[i]) /\ "tc_id" \notin DOMAIN test_cases[j]

\* d[key] = value on an insertion-ordered dict
DictSet(d, key, value) ==
    IF \E i \in 1..Len(d) : d[i][1] = key
    THEN [i \in 1..Len(d) |-> IF d[i][1] = key THEN <<key, value>> ELSE d[i]]
    ELSE Append(d, <<key, value>>)

\* {element: CoveringIds(element) for element in elements}
RECURSIVE CoveredFrom(_, _, _, _)
CoveredFrom(d, elements, test_cases, i) ==
    IF i > Len(elements) THEN d
    ELSE CoveredFrom(DictSet(d, elements[i], CoveringIds(elements[i], test_cases)),
                     elements, test_cases, i + 1)
Covered(elements, test_cases) == CoveredFrom(<<>>, elements, test_cases, 1)

CreateTraceabilityMatrix(structured_data, test_cases) ==
    IF InvalidTestCases(test_cases)
    THEN [error |-> <<"Cannot create matrix with invalid test cases">>]
    ELSE
    LET feature == GetOr(structured_data, "feature", <<"U","n","k","n","o","w","n">>)
        fields == GetOr(structured_data, "fields", <<>>)
        edge_cases == GetOr(structured_data, "edge_cases", <<>>)
        tc_ids == [i \in 1..Len(test_cases) |->
                      IF "tc_id" \in DOMAIN test_cases[i]
                      THEN test_cases[i].tc_id ELSE <<"U","N","K","N","O","W","N">>]
    IN IF CoveringIdsRaises(fields \o edge_cases, test_cases)
       THEN [raised |-> "KeyError"]
       ELSE [feature |-> feature,
             requirement_id |-> <<"R","E","Q","_">> \o ReplaceChar(Upper(feature), " ", "_"),
             test_case_ids |-> tc_ids,
             coverage |->
                 [total_requirements |-> Len(fields) + Len(edge_cases),
                  total_test_cases |-> Len(tc_ids),
                  coverage_ratio |-> IntToStr(Len(tc_ids)) \o <<" ",":"," ">>
                                       \o IntToStr(Len(fields) + Len(edge_cases))],
             mapping |->
                 [fields_covered |-> Covered(fields, test_cases),
                  edge_cases_covered |-> Covered(edge_cases, test_cases)]]

\* ------------------------------------------------ calculate_coverage_metrics

\* round(num / den, 0) for num >= 0, den > 0: to the nearest integer, ties to even
RoundHalfEven(num, den) ==
    LET q == num \div den
        r == num % den
    IN IF 2 * r < den THEN q
       ELSE IF 2 * r > den THEN q + 1
       ELSE IF q % 2 = 0 THEN q ELSE q + 1

\* round(num / den, 2), in hundredths
Round2(num, den) == RoundHalfEven(100 * num, den)

\* faulty variant: only the first case is looked at
HasTypeFirst(test_cases, kind) ==
    /\ Len(test_cases) > 0
    /\ "type" \in DOMAIN test_cases[1]
    /\ test_cases[1].type = kind

\* tc.get('type') == kind for some tc
HasType(test_cases, kind) ==
    \E i \in 1..Len(test_cases) :
        "type" \in DOMAIN test_cases[i] /\ test_cases[i].type = kind

\* len([tc for tc in test_cases if tc.get('type') == kind])
CountType(test_cases, kind) ==
    Cardinality({i \in 1..Len(test_cases) :
                    "type" \in DOMAIN test_cases[i] /\ test_cases[i].type = kind})

\* faulty variant: the second branch is an if, not an elif
TypePointsAdded(has_positive, has_negative) ==
    (IF has_positive /\ has_negative THEN 30 ELSE 0)
    + (IF has_positive \/ has_negative THEN 15 ELSE 0)

\* criteria 1: 30 with both kinds, 15 with one of them
TypePoints(has_positive, has_negative) ==
    IF has_positive /\ has_negative THEN 30
    ELSE IF has_positive \/ has_negative THEN 15
    ELSE 0

\* faulty variant: a Boundary case weighs as much as a coverage term
BoundaryPointsAsCoverage(has_boundary) == IF has_boundary THEN 25 ELSE 0

\* criteria 2: 20 with a Boundary case
BoundaryPoints(has_boundary) == IF has_boundary THEN 20 ELSE 0

\* sum(1 for e in elements if any(e.lower() in tc.get('title', '').lower() for tc in test_cases))
CoveredCount(elements, test_cases) ==
    Cardinality({i \in 1..Len(elements) :
                    \E j \in 1..Len(test_cases) : Mentions(test_cases[j], elements[i])})

\* _calculate_quality_score, in hundredths: the four terms over the common
\* denominator len(fields) * len(edge_cases) (1 for an empty sequence, whose
\* term is skipped)
CalculateQualityScore(test_cases, structured_data) ==
    LET fields == GetOr(structured_data, "fields", <<>>)
        edge_cases == GetOr(structured_data, "edge_cases", <<>>)
        points == TypePoints(HasType(test_cases, "Positive"), HasType(test_cases, "Negative"))
                  + BoundaryPoints(HasType(test_cases, "Boundary"))
        f == IF Len(fields) > 0 THEN Len(fields) ELSE 1
        m == IF Len(edge_cases) > 0 THEN Len(edge_cases) ELSE 1
        fieldTerm == IF Len(fields) > 0 THEN 25 * CoveredCount(fields, test_cases) * m ELSE 0
        edgeTerm == IF Len(edge_cases) > 0 THEN 25 * CoveredCount(edge_cases, test_cases) * f ELSE 0
    IN Round2(points * f * m + fieldTerm + edgeTerm, f * m)

\* round((total_test_cases / (total_requirements * 2)) * 100, 2), in hundredths
CoveragePercentage(total_test_cases, total_requirements) ==
    IF total_requirements > 0
    THEN Round2(total_test_cases * 100, total_requirements * 2)
    ELSE 0

\* faulty variant: the ratio is not multiplied by 10
CoverageScoreUnscaled(total_test_cases, total_requirements) ==
    IF total_requirements > 0
    THEN Round2(total_test_cases, total_requirements)
    ELSE 0

\* round(total_test_cases / total_requirements * 10, 2), in hundredths
CoverageScore(total_test_cases, total_requirements) ==
    IF total_requirements > 0
    THEN Round2(total_test_cases * 10, total_requirements)
    ELSE 0

CalculateCoverageMetrics(structured_data, test_cases) ==
    IF InvalidTestCases(test_cases)
    THEN [error |-> <<"Cannot calculate metrics with invalid test cases">>]
    ELSE
    LET num_fields == Len(GetOr(structured_data, "fields", <<>>))
        num_edge_cases == Len(GetOr(structured_data, "edge_cases", <<>>))
        total_requirements == num_fields + num_edge_cases
        total_test_cases == Len(test_cases)
    IN [requirement_coverage_score |-> CoverageScore(total_test_cases, total_requirements),
        total_cases |-> total_test_cases,
        is_automation_ready |-> TRUE,
        breakdown |->
            [fields |-> num_fields,
             validations |-> Len(GetOr(structured_data, "validations", <<>>)),
             edge_cases |-> num_edge_cases,
             roles |-> Len(GetOr(structured_data, "roles", <<>>))],
        test_type_distribution |->
            [Positive |-> CountType(test_cases, "Positive"),
             Negative |-> CountType(test_cases, "Negative"),
             Boundary |-> CountType(test_cases, "Boundary")],
        coverage_percentage |-> CoveragePercentage(total_test_cases, total_requirements),
        quality_score |-> CalculateQualityScore(test_cases, structured_data)]


\* ---------------------------------------------------- generate_selenium_java

\* str.replace(old, '') of a single character
RemoveChar(s, old) == SelectSeq(s, LAMBDA c : c # old)

\* faulty variant: the id keeps the spaces of the field name
FieldIdSpaced(field) == Lower(field)

\* field.lower().replace(' ', '_')
FieldId(field) == ReplaceChar(Lower(field), " ", "_")

\* faulty variant: the message is returned as it is, not as a comment
ScriptErrorBare(error_msg) == [error |-> error_msg]

\* return f"// Error: {error_msg}"
ScriptError(error_msg) == [error |-> <<"// Error: ">> \o error_msg]

\* _generate_validation_tests: one sendKeys statement per validation entry
GenerateValidationTests(validations) ==
    [i \in 1..Len(validations) |->
        [by_id |-> FieldId(validations[i][1]),
         send_keys |-> <<"i","n","v","a","l","i","d","_">> \o validations[i][1]]]

\* _generate_boundary_tests: clear and sendKeys("short") per entry naming "min"
GenerateBoundaryTests(validations) ==
    LET named == SelectSeq(validations, LAMBDA entry : Contains(<<"m","i","n">>, Lower(entry[2])))
    IN [i \in 1..Len(named) |-> [by_id |-> FieldId(named[i][1]), send_keys |-> <<"s","h","o","r","t">>]]

\* the parts the class text is templated from: the class name, one sendKeys
\* interaction per field, one visibility assertion per validation entry, and
\* the statements of the validation and boundary tests
GenerateSeleniumJava(structured_data) ==
    LET checked == ValidateInput(structured_data) IN
    IF ~checked[1] THEN ScriptError(checked[2])
    ELSE
    LET feature == structured_data["feature"].v
        fields == structured_data["fields"].v
        validations == GetOr(structured_data, "validations", <<>>)
    IN [class_name |-> RemoveChar(feature, " ") \o <<"T","e","s","t">>,
        field_interactions |->
            [i \in 1..Len(fields) |->
                [by_id |-> FieldId(fields[i]), send_keys |-> fields[i] \o <<"V","a","l","u","e">>]],
        assertions |-> [i \in 1..Len(validations) |-> FieldId(validations[i][1])],
        validation_tests |-> GenerateValidationTests(validations),
        boundary_tests |-> GenerateBoundaryTests(validations)]

\* --------------------------------------------- metrics.calculate_coverage

\* faulty variant: only the key fields is read
CoverageFieldsPlain(structured_data) == GetOr(structured_data, "fields", <<>>)

\* structured_data.get("functional_fields", structured_data.get("fields", []))
CoverageFields(structured_data) ==
    IF "functional_fields" \in DOMAIN structured_data
    THEN structured_data["functional_fields"].v
    ELSE GetOr(structured_data, "fields", <<>>)

\* the percentage in hundredths: min(100.0, total_tests / (total_fields * 2) * 100.0)
CalculateCoverage(structured_data, test_cases) ==
    LET total_fields == Len(CoverageFields(structured_data))
        total_tests == Len(test_cases)
        uncapped == IF total_fields > 0 THEN Round2(total_tests * 100, total_fields * 2) ELSE 0
    IN [total_fields |-> total_fields,
        total_test_cases |-> total_tests,
        requirement_coverage |-> IF uncapped > 10000 THEN 10000 ELSE uncapped]

\* ------------------------------------------------------ generate_test_cases

\* what one call of _generate_test_cases_ai does: it raises, or it returns the
\* list json.loads read from the response
AiRaises == [raises |-> TRUE, cases |-> <<>>]
AiReturns(cases) == [raises |-> FALSE, cases |-> cases]

\* how many times one call of generate_test_cases calls
\* _generate_test_cases_ai: once, after validation, if self.genai is set
AiAttempts(genai, structured_data) ==
    IF ~ValidateInput(structured_data)[1] THEN 0
    ELSE IF genai THEN 1
    ELSE 0

\* the path a call takes: "invalid", "ai" or "template"
PathOf(genai, structured_data, ai) ==
    IF ~ValidateInput(structured_data)[1] THEN "invalid"
    ELSE IF genai /\ ~ai.raises THEN "ai"
    ELSE "template"

\* faulty variant: a failed AI attempt is reported as an error element
GenerateTestCasesNoFallback(genai, structured_data, ai) ==
    LET checked == ValidateInput(structured_data) IN
    IF ~checked[1] THEN <<[error |-> checked[2]]>>
    ELSE IF genai /\ ai.raises THEN <<[error |-> <<"AI generation failed">>]>>
    ELSE IF genai THEN ai.cases
    ELSE GenerateTestCasesTemplate(structured_data)

\* faulty variant: invalid input returns an empty list, not the sentinel
GenerateTestCasesEmptyOnError(genai, structured_data, ai) ==
    IF ~ValidateInput(structured_data)[1] THEN <<>>
    ELSE IF genai /\ ~ai.raises THEN ai.cases
    ELSE GenerateTestCasesTemplate(structured_data)

GenerateTestCases(genai, structured_data, ai) ==
    LET checked == ValidateInput(structured_data) IN
    IF ~checked[1] THEN <<[error |-> checked[2]]>>
    ELSE IF genai /\ ~ai.raises THEN ai.cases
    ELSE GenerateTestCasesTemplate(structured_data)

\* ------------------------------------------------------------------ inputs

Login == <<"L","o","g","i","n">>
email == <<"e","m","a","i","l">>
password == <<"p","a","s","s","w","o","r","d">>
admin == <<"a","d","m","i","n">>
user == <<"u","s","e","r">>
guest == <<"g","u","e","s","t">>
sql_injection == <<"s","q","l"," ","i","n","j","e","c","t","i","o","n">>
empty_fields == <<"e","m","p","t","y"," ","f","i","e","l","d","s">>
min_8_chars == <<"m","i","n"," ","8"," ","c","h","a","r","s">>
valid_format == <<"v","a","l","i","d"," ","f","o","r","m","a","t">>
min_1_max_100 == <<"m","i","n"," ","1",","," ","m","a","x"," ","1","0","0">>

Features == {Login}
FieldPool == {email, password}
RulePool == {min_8_chars, valid_format, min_1_max_100}
EdgePool == {sql_injection, empty_fields}
RoleOrder == <<admin, user, guest>>

SeqsUpTo(S, n) == UNION {[1..k -> S] : k \in 0..n}

FieldLists == SeqsUpTo(FieldPool, MaxFields)
EdgeLists == SeqsUpTo(EdgePool, MaxEdgeCases)
RoleLists == {SubSeq(RoleOrder, 1, k) : k \in 0..MaxRoles}
\* validations maps field names to rules: a dict has each key once, in
\* insertion order
ValidatedOrder == <<password, email>>
ValidationDicts ==
    UNION {{[i \in 1..k |-> <<ValidatedOrder[i], rules[i]>>] : rules \in [1..k -> RulePool]} :
              k \in 0..Len(ValidatedOrder)}

ValidRequirements ==
    {Requirement(f, fl, vd, rl, el) :
        f \in Features, fl \in FieldLists, vd \in ValidationDicts,
        rl \in RoleLists, el \in EdgeLists}

\* the example of the specification
LoginExample ==
    Requirement(Login, <<email, password>>, <<<<password, min_8_chars>>>>,
                <<admin>>, <<sql_injection>>)

RequiredKeySet == {required_keys[i] : i \in 1..Len(required_keys)}

\* mappings that lack required keys, or hold a value of the wrong type
MalformedRequirements ==
    {WithoutKeys(LoginExample, drop) : drop \in (SUBSET RequiredKeySet) \ {{}}}
    \cup {WithKey(LoginExample, "fields", Str(email)),
          WithKey(LoginExample, "validations", List(<<min_8_chars>>)),
          WithKey(LoginExample, "roles", Str(admin)),
          WithKey(LoginExample, "edge_cases", Dict(<<>>))}

\* the shape the dashboard and the pipeline tests pass in: the field list
\* under functional_fields, no fields key, and a risk_analysis mapping
DashboardShape(d) ==
    WithKey(WithKey(WithoutKeys(d, {"fields"}), "functional_fields", d["fields"]),
            "risk_analysis", Dict(<<>>))
DashboardRequirements ==
    {DashboardShape(LoginExample),
     DashboardShape(Requirement(Login, <<email>>, <<>>, <<>>, <<>>))}

\* lists an AI backend may answer with
AiPositive ==
    [tc_id |-> <<"T","C","_","0","0","1">>, title |-> <<"V","a","l","i","d"," ","l","o","g","i","n"," ","w","i","t","h"," ","c","o","r","r","e","c","t"," ","c","r","e","d","e","n","t","i","a","l","s">>,
     type |-> "Positive", steps |-> <<<<"O","p","e","n"," ","a","p","p","l","i","c","a","t","i","o","n">>>>,
     expected_result |-> <<"U","s","e","r"," ","s","u","c","c","e","s","s","f","u","l","l","y"," ","l","o","g","g","e","d"," ","i","n">>]
AiBoundary ==
    [tc_id |-> <<"T","C","_","0","0","2">>, title |-> <<"P","a","s","s","w","o","r","d"," ","o","f"," ","7",","," ","8",","," ","9"," ","c","h","a","r","s">>,
     type |-> "Boundary", steps |-> <<<<"E","n","t","e","r"," ","p","a","s","s","w","o","r","d">>>>,
     expected_result |-> <<"L","e","n","g","t","h"," ","i","s"," ","c","h","e","c","k","e","d">>]
AiWorkflow ==
    [tc_id |-> <<"T","C","_","0","0","3">>, title |-> <<"W","o","r","k","f","l","o","w"," ","f","r","o","m"," ","l","o","g","i","n"," ","t","o"," ","l","o","g","o","u","t">>,
     type |-> "Workflow", steps |-> <<<<"L","o","g","i","n">>, <<"L","o","g","o","u","t">>>>,
     expected_result |-> <<"S","e","s","s","i","o","n"," ","e","n","d","s">>]
AiError == [error |-> <<"quota exceeded">>]
\* an element json.loads read without the tc_id key
AiUntagged ==
    [title |-> <<"L","o","g","i","n"," ","r","e","j","e","c","t","s"," ","a"," ","m","a","l","f","o","r","m","e","d"," ","e","m","a","i","l">>, type |-> "Negative",
     steps |-> <<<<"E","n","t","e","r"," ","a"," ","m","a","l","f","o","r","m","e","d"," ","e","m","a","i","l">>>>, expected_result |-> <<"E","r","r","o","r"," ","i","s"," ","s","h","o","w","n">>]

AiLists ==
    {<<>>, <<AiPositive, AiError>>, <<AiError, AiPositive>>, <<AiWorkflow, AiBoundary>>}

AiOutcomes == {AiRaises} \cup {AiReturns(l) : l \in AiLists}

\* ------------------------------------------------------------- the request

NotYet == [pending |-> TRUE]

Calls == {1, 2}

HostIdle ==
    /\ pc = "idle"
    /\ ai_calls = 0
    /\ request = <<>>
    /\ session_cases = <<>>
    /\ first_cases = <<>>
    /\ path = "none"
    /\ java_code = NotYet
    /\ matrix = NotYet
    /\ metrics = NotYet
    /\ coverage = NotYet

CallsIdle ==
    /\ call_req = [c \in Calls |-> <<>>]
    /\ call_pc = [c \in Calls |-> "idle"]
    /\ call_i = [c \in Calls |-> 0]
    /\ call_cases = [c \in Calls |-> <<>>]
    /\ counters = [c \in Calls |-> 0]

Init ==
    /\ engine_genai \in BOOLEAN
    /\ ai_backend \in (IF engine_genai THEN AiOutcomes ELSE {AiRaises})
    /\ HostIdle
    /\ CallsIdle

\* session_cases = engine.generate_test_cases(data)
Generate(data) ==
    /\ pc = "idle"
    /\ request' = data
    /\ session_cases' = GenerateTestCases(engine_genai, data, ai_backend)
    /\ ai_calls' = ai_calls + AiAttempts(engine_genai, data)
    /\ path' = PathOf(engine_genai, data, ai_backend)
    /\ pc' = "generated"
    /\ UNCHANGED <<engine_genai, ai_backend, first_cases, java_code, matrix, metrics, coverage,
                   callVars>>

\* a second call with the identical requirement
Regenerate ==
    /\ pc = "generated"
    /\ first_cases' = session_cases
    /\ session_cases' = GenerateTestCases(engine_genai, request, ai_backend)
    /\ ai_calls' = ai_calls + AiAttempts(engine_genai, request)
    /\ path' = PathOf(engine_genai, request, ai_backend)
    /\ pc' = "regenerated"
    /\ UNCHANGED <<engine_genai, ai_backend, request, java_code, matrix, metrics, coverage,
                   callVars>>

\* java_code = engine.generate_selenium_java(data)
Script ==
    /\ pc = "generated"
    /\ java_code' = GenerateSeleniumJava(request)
    /\ pc' = "scripted"
    /\ UNCHANGED <<engine_genai, ai_backend, ai_calls, request, session_cases, first_cases, path, matrix,
                   metrics, coverage, callVars>>

\* faulty variant: the builder takes the first element off the list to inspect it
TraceConsuming ==
    /\ pc = "scripted"
    /\ matrix' = CreateTraceabilityMatrix(request, session_cases)
    /\ session_cases' = IF Len(session_cases) > 0 THEN Tail(session_cases) ELSE session_cases
    /\ pc' = "traced"
    /\ UNCHANGED <<engine_genai, ai_backend, ai_calls, request, first_cases, path, java_code,
                   metrics, coverage, callVars>>

\* matrix = engine.create_traceability_matrix(data, test_cases)
Trace ==
    /\ pc = "scripted"
    /\ matrix' = CreateTraceabilityMatrix(request, session_cases)
    /\ pc' = "traced"
    /\ UNCHANGED <<engine_genai, ai_backend, ai_calls, request, session_cases, first_cases, path, java_code,
                   metrics, coverage, callVars>>

\* metrics = engine.calculate_coverage_metrics(data, test_cases)
Measure ==
    /\ pc = "traced"
    /\ metrics' = CalculateCoverageMetrics(request, session_cases)
    /\ pc' = "measured"
    /\ UNCHANGED <<engine_genai, ai_backend, ai_calls, request, session_cases, first_cases, path, java_code,
                   matrix, coverage, callVars>>

\* the dashboard's metrics: calculate_coverage(data, test_cases)
Cover ==
    /\ pc = "traced"
    /\ coverage' = CalculateCoverage(request, session_cases)
    /\ pc' = "covered"
    /\ UNCHANGED <<engine_genai, ai_backend, ai_calls, request, session_cases, first_cases, path, java_code,
                   matrix, metrics, callVars>>

Next ==
    \/ \E data \in ValidRequirements \cup MalformedRequirements \cup DashboardRequirements :
           Generate(data)
    \/ Regenerate
    \/ Script
    \/ Trace
    \/ Measure
    \/ Cover

Spec == Init /\ [][Next]_vars

\* ------------------------------------------------------- parallel synthesis

\* requirements the parallel calls are given
RolesOnly == Requirement(Login, <<>>, <<>>, <<admin, user>>, <<>>)
TwoRules ==
    Requirement(Login, <<email>>, <<<<password, min_1_max_100>>, <<email, valid_format>>>>,
                <<>>, <<empty_fields>>)
CallRequirements == {LoginExample, RolesOnly, TwoRules}

\* faulty variant: one counter for the whole process
CounterShared(c) == 1

\* tc_counter is a local of the call's frame: each call has its own
CounterOf(c) == c

\* the locals of call c, and their update
Locals(c) == [test_cases |-> call_cases[c], tc_counter |-> counters[CounterOf(c)]]
SetLocals(c, st) ==
    /\ call_cases' = [call_cases EXCEPT ![c] = st.test_cases]
    /\ counters' = [counters EXCEPT ![CounterOf(c)] = st.tc_counter]

\* leave the current loop for the next one
Enter(c, loop) ==
    /\ call_pc' = [call_pc EXCEPT ![c] = loop]
    /\ call_i' = [call_i EXCEPT ![c] = 1]

Advance(c) ==
    /\ call_i' = [call_i EXCEPT ![c] = call_i[c] + 1]
    /\ UNCHANGED call_pc

\* test_cases = []; tc_counter = 1; feature = structured_data['feature']
CallStart(c, data) ==
    /\ call_pc[c] = "idle"
    /\ call_req' = [call_req EXCEPT ![c] = data]
    /\ SetLocals(c, NewCall)
    /\ Enter(c, "fields")
    /\ UNCHANGED hostVars

\* one iteration of the loop over fields, or its end
CallField(c) ==
    /\ call_pc[c] = "fields"
    /\ LET fields == call_req[c]["fields"].v IN
       IF call_i[c] > Len(fields)
       THEN Enter(c, "validations") /\ UNCHANGED <<call_cases, counters>>
       ELSE /\ SetLocals(c, EmitField(Locals(c), call_req[c]["feature"].v, fields[call_i[c]]))
            /\ Advance(c)
    /\ UNCHANGED <<hostVars, call_req>>

\* the Negative case of one validation entry, or the end of the loop
CallNegative(c) ==
    /\ call_pc[c] = "validations"
    /\ LET validations == call_req[c]["validations"].v IN
       IF call_i[c] > Len(validations)
       THEN Enter(c, "edge_cases") /\ UNCHANGED <<call_cases, counters>>
       ELSE /\ SetLocals(c, EmitNegative(Locals(c), call_req[c]["feature"].v,
                                         validations[call_i[c]]))
            /\ IF HasBoundary(validations[call_i[c]][2])
               THEN call_pc' = [call_pc EXCEPT ![c] = "boundary"] /\ UNCHANGED call_i
               ELSE Advance(c)
    /\ UNCHANGED <<hostVars, call_req>>

\* the Boundary case of the same entry
CallBoundary(c) ==
    /\ call_pc[c] = "boundary"
    /\ SetLocals(c, EmitBoundary(Locals(c), call_req[c]["feature"].v,
                                 call_req[c]["validations"].v[call_i[c]]))
    /\ call_pc' = [call_pc EXCEPT ![c] = "validations"]
    /\ call_i' = [call_i EXCEPT ![c] = call_i[c] + 1]
    /\ UNCHANGED <<hostVars, call_req>>

CallEdge(c) ==
    /\ call_pc[c] = "edge_cases"
    /\ LET edge_cases == call_req[c]["edge_cases"].v IN
       IF call_i[c] > Len(edge_cases)
       THEN Enter(c, "roles") /\ UNCHANGED <<call_cases, counters>>
       ELSE /\ SetLocals(c, EmitEdge(Locals(c), call_req[c]["feature"].v, edge_cases[call_i[c]]))
            /\ Advance(c)
    /\ UNCHANGED <<hostVars, call_req>>

\* one iteration of the loop over roles, or return test_cases
CallRole(c) ==
    /\ call_pc[c] = "roles"
    /\ LET roles == call_req[c]["roles"].v IN
       IF call_i[c] > Len(roles)
       THEN /\ call_pc' = [call_pc EXCEPT ![c] = "done"]
            /\ UNCHANGED <<call_i, call_cases, counters>>
       ELSE /\ SetLocals(c, EmitRole(Locals(c), call_req[c]["feature"].v, roles[call_i[c]]))
            /\ Advance(c)
    /\ UNCHANGED <<hostVars, call_req>>

ThreadInit ==
    /\ engine_genai = FALSE
    /\ ai_backend = AiRaises
    /\ HostIdle
    /\ CallsIdle

ThreadNext ==
    \E c \in Calls :
        \/ \E data \in CallRequirements : CallStart(c, data)
        \/ CallField(c)
        \/ CallNegative(c)
        \/ CallBoundary(c)
        \/ CallEdge(c)
        \/ CallRole(c)

ThreadSpec == ThreadInit /\ [][ThreadNext]_vars

\* --------------------------------------------------------- validation rules

\* rule texts with and without min/max, with and without a digit token
MAX_5 == <<"M","A","X"," ","5">>
min_8chars == <<"m","i","n"," ","8","c","h","a","r","s">>
max_length == <<"m","a","x"," ","l","e","n","g","t","h">>
exactly_8 == <<"e","x","a","c","t","l","y"," ","8">>
RuleTexts == {min_8_chars, valid_format, min_1_max_100, MAX_5, min_8chars, max_length, exactly_8}

RuleDicts ==
    {<<<<password, r>>>> : r \in RuleTexts}
    \cup {<<<<password, r1>>, <<email, r2>>>> : r1 \in RuleTexts, r2 \in RuleTexts}

RuleRequirements ==
    {Requirement(Login, <<email>>, vd, <<admin>>, <<sql_injection>>) : vd \in RuleDicts}

\* requests whose validations run over the rule texts, no AI backend
RuleInit ==
    /\ engine_genai = FALSE
    /\ ai_backend = AiRaises
    /\ HostIdle
    /\ CallsIdle

RuleNext ==
    \/ \E data \in RuleRequirements : Generate(data)
    \/ Regenerate
    \/ Script
    \/ Trace
    \/ Measure
    \/ Cover

RuleSpec == RuleInit /\ [][RuleNext]_vars

\* ------------------------------------------------------ untagged AI answers

\* answers of an AI backend whose elements lack the tc_id key
UntaggedLists == {<<AiUntagged>>, <<AiPositive, AiUntagged>>, <<AiUntagged, AiBoundary>>}

UntaggedInit ==
    /\ engine_genai = TRUE
    /\ ai_backend \in {AiReturns(l) : l \in UntaggedLists}
    /\ HostIdle
    /\ CallsIdle

UntaggedNext ==
    \/ \E data \in ValidRequirements : Generate(data)
    \/ Regenerate
    \/ Script
    \/ Trace
    \/ Measure
    \/ Cover

UntaggedSpec == UntaggedInit /\ [][UntaggedNext]_vars

\* ------------------------------------------------------- names with spaces

\* features and fields written with spaces and capitals
User_Login == <<"U","s","e","r"," ","L","o","g","i","n">>
User_Name == <<"U","s","e","r"," ","N","a","m","e">>

SpacedFieldLists == SeqsUpTo({User_Name, email}, 2)
SpacedValidations ==
    {<<>>, <<<<User_Name, min_8_chars>>>>, <<<<email, valid_format>>, <<User_Name, MAX_5>>>>}

SpacedRequirements ==
    {Requirement(f, fl, vd, <<>>, <<>>) :
        f \in {Login, User_Login}, fl \in SpacedFieldLists, vd \in SpacedValidations}

ScriptInit ==
    /\ engine_genai = FALSE
    /\ ai_backend = AiRaises
    /\ HostIdle
    /\ CallsIdle

ScriptNext ==
    \/ \E data \in SpacedRequirements : Generate(data)
    \/ Regenerate
    \/ Script
    \/ Trace
    \/ Measure
    \/ Cover

ScriptSpec == ScriptInit /\ [][ScriptNext]_vars

\* ---------------------------------------------------------------- properties

\* the last call ran the template synthesizer on a valid requirement
Synthesized == pc # "idle" /\ path = "template"

Fields == request["fields"].v
Validations == request["validations"].v
EdgeCases == request["edge_cases"].v
Roles == request["roles"].v
Feature == request["feature"].v

\* the validation entries whose loop body appends a Boundary case
BoundaryMatches(validations) ==
    Cardinality({i \in 1..Len(validations) : HasBoundary(validations[i][2])})

\* C1: the template synthesizer returns exactly n + v + b' + m + k cases for
\* n fields, v validation entries of which b' match the boundary rule, m edge
\* cases and k roles; the Login example yields 6.
C1_CaseCount ==
    Synthesized =>
        /\ Len(session_cases) =
               Len(Fields) + Len(Validations) + BoundaryMatches(Validations)
               + Len(EdgeCases) + Len(Roles)
        /\ (request = LoginExample => Len(session_cases) = 6)

C1_Witness ==
    /\ pc = "generated"
    /\ path = "template"
    /\ request = LoginExample
    /\ Len(session_cases) = 6

\* tc_id is "TC_" and three digits that read i
IsIdOf(tc_id, i) ==
    /\ Len(tc_id) = 6
    /\ SubSeq(tc_id, 1, 3) = <<"T", "C", "_">>
    /\ \A k \in 4..6 : IsDigitChar(tc_id[k])
    /\ 100 * DigitValue(tc_id[4]) + 10 * DigitValue(tc_id[5]) + DigitValue(tc_id[6]) = i

ContiguousIds(test_cases) ==
    \A i \in 1..Len(test_cases) : IsIdOf(test_cases[i].tc_id, i)

\* C2: the i-th case of a synthesized list has id TC_ and i padded to three
\* digits: ids start at TC_001 and go up by one per case, Boundary cases
\* included, with no gap, repeat or reset between the phases.
C2_ContiguousIds == Synthesized => ContiguousIds(session_cases)

C2_Witness ==
    /\ pc = "generated"
    /\ path = "template"
    /\ Len(session_cases) >= 7
    /\ session_cases[4].type = "Boundary"
    /\ session_cases[6].type = "Boundary"
    /\ IsIdOf(session_cases[7].tc_id, 7)

\* C3: a synthesized list is the field cases in fields order, then the
\* validation-derived cases in validations order, then the edge cases in
\* edge_cases order, then the role cases in roles order.
C3_PhaseOrder ==
    Synthesized =>
        LET total == Len(session_cases)
            n == Len(Fields)
            m == Len(EdgeCases)
            k == Len(Roles)
            derived == SubSeq(session_cases, n + 1, total - m - k)
            negatives == SelectSeq(derived, LAMBDA tc : tc.type = "Negative")
        IN /\ total >= n + m + k
           /\ \A i \in 1..n :
                  /\ session_cases[i].type = "Positive"
                  /\ session_cases[i].title = FieldCase(Feature, Fields[i], i).title
           /\ \A i \in 1..Len(derived) : derived[i].type \in {"Negative", "Boundary"}
           /\ Len(negatives) = Len(Validations)
           /\ \A j \in 1..Len(negatives) :
                  negatives[j].title =
                      ValidationCase(Feature, Validations[j][1], Validations[j][2], j).title
           /\ \A j \in 1..m :
                  /\ session_cases[total - k - m + j].type = "Negative"
                  /\ session_cases[total - k - m + j].title
                         = EdgeCase(Feature, EdgeCases[j], j).title
           /\ \A j \in 1..k :
                  /\ session_cases[total - k + j].type = "Positive"
                  /\ session_cases[total - k + j].title = RoleCase(Feature, Roles[j], j).title

C3_Witness ==
    /\ pc = "generated"
    /\ path = "template"
    /\ Len(Fields) = 2
    /\ Len(Validations) = 2
    /\ Len(EdgeCases) = 1
    /\ Len(Roles) = 1
    /\ Len(session_cases) >= 6

Min(a, b) == IF a < b THEN a ELSE b

\* C4: coverage_percentage is in [0, 100]: min(100, cases / (2 * (|fields| +
\* |edge_cases|)) * 100), and 0 when there are no fields and no edge cases.
C4_CoverageWithin100 ==
    (pc = "measured" /\ "coverage_percentage" \in DOMAIN metrics) =>
        LET total_requirements == Len(Fields) + Len(EdgeCases) IN
        /\ metrics.coverage_percentage \in 0..10000
        /\ metrics.coverage_percentage =
               IF total_requirements = 0 THEN 0
               ELSE Min(10000, Round2(Len(session_cases) * 100, total_requirements * 2))

\* C5: quality_score is in [0, 100] for every requirement and every list.
C5_QualityWithin100 ==
    /\ (pc = "measured" /\ "quality_score" \in DOMAIN metrics) =>
           metrics.quality_score \in 0..10000
    /\ (pc # "idle" /\ path # "invalid") =>
           CalculateQualityScore(session_cases, request) \in 0..10000

C5_Witness ==
    /\ pc = "measured"
    /\ "quality_score" \in DOMAIN metrics
    /\ metrics.quality_score = 10000

C7_OwnCounter ==
    \A c \in Calls :
        call_pc[c] # "idle" =>
            LET alone == GenerateTestCasesTemplate(call_req[c]) IN
            /\ Len(call_cases[c]) <= Len(alone)
            /\ call_cases[c] = SubSeq(alone, 1, Len(call_cases[c]))
            /\ ContiguousIds(call_cases[c])
            /\ (call_pc[c] = "done" => call_cases[c] = alone)

C7_Witness ==
    /\ call_pc[1] = "done"
    /\ Len(call_cases[1]) = 6
    /\ call_pc[2] = "boundary"
    /\ Len(call_cases[2]) >= 2
    /\ counters[1] # counters[2]

\* a list that is the error sentinel
IsSentinel(test_cases) ==
    /\ Len(test_cases) = 1
    /\ "error" \in DOMAIN test_cases[1]
    /\ Len(test_cases[1].error) > 0

LacksKey(d) == \E key \in RequiredKeySet : key \notin DOMAIN d

IllTyped(d) ==
    \/ d["fields"].t # "list"
    \/ d["validations"].t # "dict"
    \/ d["roles"].t # "list"
    \/ d["edge_cases"].t # "list"

\* C8: generate_test_cases returns the one-element error sentinel whenever a
\* required key is absent, or fields, roles or edge_cases is not a list, or
\* validations is not a mapping.
C8_SentinelOnInvalid ==
    (pc # "idle" /\ (LacksKey(request) \/ IllTyped(request))) => IsSentinel(session_cases)

C8_Witness ==
    /\ pc = "generated"
    /\ DOMAIN request = {"feature"}
    /\ IsSentinel(session_cases)

EmptyOrSentinel == Len(session_cases) = 0 \/ "error" \in DOMAIN session_cases[1]

AllEmpty ==
    /\ Synthesized
    /\ Len(Fields) = 0
    /\ Len(Validations) = 0
    /\ Len(EdgeCases) = 0
    /\ Len(Roles) = 0

\* C10 as stated: the empty requirement yields an empty list, and its metrics
\* report coverage_percentage == 0 and quality_score == 0.
C10_EmptyReportsZero ==
    (pc = "measured" /\ AllEmpty) =>
        /\ Len(session_cases) = 0
        /\ "coverage_percentage" \in DOMAIN metrics
        /\ metrics.coverage_percentage = 0
        /\ "quality_score" \in DOMAIN metrics
        /\ metrics.quality_score = 0

\* C10 as amended: the empty requirement yields an empty list, for which
\* calculate_coverage_metrics returns the error result and reports neither
\* score; _calculate_quality_score itself gives 0.
C10_EmptyReportsError ==
    (pc = "measured" /\ AllEmpty) =>
        /\ Len(session_cases) = 0
        /\ "error" \in DOMAIN metrics
        /\ "coverage_percentage" \notin DOMAIN metrics
        /\ "quality_score" \notin DOMAIN metrics
        /\ CalculateQualityScore(session_cases, request) = 0

C10_Witness ==
    /\ pc = "measured"
    /\ AllEmpty
    /\ Len(session_cases) = 0
    /\ "error" \in DOMAIN metrics

\* the request supplies functional_fields and has no fields key
FunctionalFieldsOnly ==
    /\ pc # "idle"
    /\ "functional_fields" \in DOMAIN request
    /\ "fields" \notin DOMAIN request

\* every element is a test case carrying tc_id
CarryTcId(test_cases) ==
    /\ Len(test_cases) > 0
    /\ \A i \in 1..Len(test_cases) : "tc_id" \in DOMAIN test_cases[i]

KeysOf(d) == {d[i][1] : i \in 1..Len(d)}
ElementsOf(l) == {l[i] : i \in 1..Len(l)}

\* C11: a requirement that supplies functional_fields and no fields key is
\* normalized: the synthesizer returns test cases carrying tc_id, not the
\* missing-keys sentinel, and the script synthesizer and the traceability
\* builder treat the functional_fields list as the fields.
C11_FunctionalFieldsNormalized ==
    FunctionalFieldsOnly =>
        /\ CarryTcId(session_cases)
        /\ pc \in {"scripted", "traced", "measured", "covered"} =>
               /\ "field_interactions" \in DOMAIN java_code
               /\ Len(java_code.field_interactions) = Len(request["functional_fields"].v)
        /\ pc \in {"traced", "measured", "covered"} =>
               /\ "mapping" \in DOMAIN matrix
               /\ KeysOf(matrix.mapping.fields_covered)
                      = ElementsOf(request["functional_fields"].v)

\* the request has feature and a fields list and lacks some of validations,
\* edge_cases, roles
LacksOptionalKey ==
    /\ pc # "idle"
    /\ {"feature", "fields"} \subseteq DOMAIN request
    /\ request["fields"].t = "list"
    /\ \E key \in {"validations", "edge_cases", "roles"} : key \notin DOMAIN request

\* C12: a requirement with feature and fields that lacks validations,
\* edge_cases or roles is not rejected: the missing keys count as empty and
\* the result holds the per-field cases, not an error.
C12_MissingKeysDefault ==
    LacksOptionalKey =>
        /\ CarryTcId(session_cases)
        /\ Len(session_cases) >= Len(request["fields"].v)
        /\ ~engine_genai =>
               \A i \in 1..Len(request["fields"].v) :
                   session_cases[i].title
                       = FieldCase(request["feature"].v, request["fields"].v[i], i).title

\* the rule text holds a token of decimal digits: a run of digits with a
\* space or an end of the text on both sides
HasDigitToken(rule) ==
    \E i \in 1..Len(rule) : \E j \in i..Len(rule) :
        /\ \A k \in i..j : IsDigitChar(rule[k])
        /\ (i = 1 \/ rule[i - 1] = " ")
        /\ (j = Len(rule) \/ rule[j + 1] = " ")

\* the rule text contains "min" or "max" in any case
NamesMinOrMax(rule) ==
    \E i \in 1..(Len(rule) - 2) :
        \/ <<LowerChar(rule[i]), LowerChar(rule[i + 1]), LowerChar(rule[i + 2])>> = <<"m", "i", "n">>
        \/ <<LowerChar(rule[i]), LowerChar(rule[i + 1]), LowerChar(rule[i + 2])>> = <<"m", "a", "x">>

\* the Boundary cases of the list that belong to the entry (field, rule)
BoundaryCasesOf(test_cases, field, rule) ==
    {i \in 1..Len(test_cases) :
        /\ test_cases[i].type = "Boundary"
        /\ test_cases[i].title = <<"B","o","u","n","d","a","r","y"," ","t","e","s","t"," ","f","o","r"," ">> \o field \o <<" ","-"," ">> \o rule}

\* the Negative cases of the list that belong to the entry (field, rule)
NegativeCasesOf(test_cases, field, rule) ==
    {i \in 1..Len(test_cases) :
        /\ test_cases[i].type = "Negative"
        /\ test_cases[i].title
               = <<"I","n","v","a","l","i","d"," ">> \o Feature \o <<" ","-"," ">> \o field \o <<" ","f","a","i","l","s"," ">> \o rule}

\* C13: for each validation entry the template synthesizer emits one
\* Negative case, and one Boundary case if and only if the rule text contains
\* "min" or "max" in any case and holds at least one token of decimal digits;
\* otherwise the entry has the Negative case only.
C13_BoundaryIffMinMaxAndDigits ==
    Synthesized =>
        /\ \A j \in 1..Len(Validations) :
               LET field == Validations[j][1]
                   rule == Validations[j][2]
               IN /\ Cardinality(NegativeCasesOf(session_cases, field, rule)) = 1
                  /\ Cardinality(BoundaryCasesOf(session_cases, field, rule))
                         = IF NamesMinOrMax(rule) /\ HasDigitToken(rule) THEN 1 ELSE 0
        /\ CountType(session_cases, "Boundary")
               = Cardinality({j \in 1..Len(Validations) :
                                 NamesMinOrMax(Validations[j][2])
                                 /\ HasDigitToken(Validations[j][2])})

C13_Witness ==
    /\ pc = "generated"
    /\ path = "template"
    /\ Validations = <<<<password, MAX_5>>, <<email, min_8chars>>>>
    /\ Len(session_cases) = 6
    /\ session_cases[3].type = "Boundary"
    /\ session_cases[4].type = "Negative"
    /\ session_cases[5].type = "Negative"

\* the first integer of the text reading left to right: its first maximal
\* run of decimal digits
FirstInteger(text) ==
    LET i == CHOOSE a \in 1..Len(text) :
                 IsDigitChar(text[a]) /\ \A k \in 1..(a - 1) : ~IsDigitChar(text[k])
        j == CHOOSE b \in i..Len(text) :
                 /\ \A k \in i..b : IsDigitChar(text[k])
                 /\ (b = Len(text) \/ ~IsDigitChar(text[b + 1]))
    IN ToInt(SubSeq(text, i, j))

\* the text names the three values b-1, b, b+1
NamesValuesAround(text, b) ==
    Contains(<<"(">> \o IntToStr(b - 1) \o <<",", " ">> \o IntToStr(b) \o <<",", " ">>
                 \o IntToStr(b + 1) \o <<")">>,
             text)

\* C14: the Boundary case of a validation entry takes as boundary value b the
\* first integer of the rule text reading left to right (8 for "min 8 chars",
\* 1 for "min 1, max 100"), and its steps name b-1, b, b+1.
C14_FirstIntegerIsBoundary ==
    Synthesized =>
        \A j \in 1..Len(Validations) :
            \A i \in BoundaryCasesOf(session_cases, Validations[j][1], Validations[j][2]) :
                \E k \in 1..Len(session_cases[i].steps) :
                    NamesValuesAround(session_cases[i].steps[k], FirstInteger(Validations[j][2]))

\* the create_traceability_matrix call returned a matrix
Traced == pc \in {"traced", "measured", "covered"} /\ "mapping" \in DOMAIN matrix

\* the title contains the text, letters compared without regard to case
TitleHolds(title, text) ==
    \E off \in 0..(Len(title) - Len(text)) :
        \A k \in 1..Len(text) : LowerChar(title[off + k]) = LowerChar(text[k])

\* the positions of the test cases whose title holds the element's text
Covering(test_cases, element) ==
    {j \in 1..Len(test_cases) :
        "title" \in DOMAIN test_cases[j] /\ TitleHolds(test_cases[j].title, element)}

\* ids lists the id of every covering case once, in test-case order
ListsExactly(ids, test_cases, element) ==
    LET hits == Covering(test_cases, element) IN
    /\ Len(ids) = Cardinality(hits)
    /\ \A j \in hits : ids[Cardinality({h \in hits : h <= j})] = test_cases[j].tc_id
    /\ \A a \in 1..Len(ids) : \A b \in 1..Len(ids) : ids[a] = ids[b] => a = b

\* every element has an entry, and every entry lists exactly the covering ids
EntriesExact(entries, elements, test_cases) ==
    /\ \A i \in 1..Len(elements) : \E e \in 1..Len(entries) : entries[e][1] = elements[i]
    /\ \A e \in 1..Len(entries) : ListsExactly(entries[e][2], test_cases, entries[e][1])

\* C15: for every field and every edge case, the traceability entry of the
\* element lists exactly the ids of the test cases whose title contains the
\* element's text as a case-insensitive substring, each id once and in
\* test-case order; "email" takes the id of "Valid Login with correct email"
\* and not the id of "Valid Login with correct password".
C15_EntriesListCoveringIds ==
    Traced =>
        /\ EntriesExact(matrix.mapping.fields_covered, request["fields"].v, session_cases)
        /\ EntriesExact(matrix.mapping.edge_cases_covered, request["edge_cases"].v,
                        session_cases)

C15_Witness ==
    /\ pc = "traced"
    /\ request = LoginExample
    /\ path = "template"
    /\ "mapping" \in DOMAIN matrix
    /\ matrix.mapping.fields_covered
           = <<<<email, <<<<"T","C","_","0","0","1">>>>>>,
               <<password, <<<<"T","C","_","0","0","2">>, <<"T","C","_","0","0","3">>, <<"T","C","_","0","0","4">>>>>>>>
    /\ matrix.mapping.edge_cases_covered = <<<<sql_injection, <<<<"T","C","_","0","0","5">>>>>>>>

\* C16: the matrix has one traceability entry per element, names need not be
\* distinct: fields_covered has as many entries as fields has elements and
\* edge_cases_covered as many as edge_cases, coverage.total_requirements in all.
C16_OneEntryPerElement ==
    Traced =>
        /\ Len(matrix.mapping.fields_covered) = Len(request["fields"].v)
        /\ Len(matrix.mapping.edge_cases_covered) = Len(request["edge_cases"].v)
        /\ Len(matrix.mapping.fields_covered) + Len(matrix.mapping.edge_cases_covered)
               = matrix.coverage.total_requirements

\* C17: no consumer takes the error sentinel for a test case: given the
\* one-element sentinel list, create_traceability_matrix,
\* calculate_coverage_metrics and metrics.calculate_coverage each return an
\* error result or count zero test cases, and none derives a non-zero coverage.
C17_SentinelNeverCounted ==
    (pc # "idle" /\ IsSentinel(session_cases)) =>
        /\ pc \in {"traced", "measured", "covered"} =>
               \/ "error" \in DOMAIN matrix
               \/ /\ "coverage" \in DOMAIN matrix
                  /\ matrix.coverage.total_test_cases = 0
        /\ pc = "measured" =>
               \/ "error" \in DOMAIN metrics
               \/ /\ "total_cases" \in DOMAIN metrics
                  /\ metrics.total_cases = 0
                  /\ metrics.coverage_percentage = 0
        /\ pc = "covered" =>
               \/ "error" \in DOMAIN coverage
               \/ /\ "total_test_cases" \in DOMAIN coverage
                  /\ coverage.total_test_cases = 0
                  /\ coverage.requirement_coverage = 0

\* C18: generate_test_cases, generate_selenium_java,
\* create_traceability_matrix and calculate_coverage_metrics never raise: for
\* every input that reaches them, a test-case list whose elements lack tc_id
\* included, each returns a normal result or the error sentinel.
C18_NeverRaises ==
    /\ pc \in {"scripted", "traced", "measured", "covered"} => "raised" \notin DOMAIN java_code
    /\ pc \in {"traced", "measured", "covered"} => "raised" \notin DOMAIN matrix
    /\ pc = "measured" => "raised" \notin DOMAIN metrics

\* calculate_coverage_metrics returned the metrics
Measured == pc = "measured" /\ "total_cases" \in DOMAIN metrics

Abs(x) == IF x < 0 THEN 0 - x ELSE x

\* hundredths is num / den rounded to 2 decimals (den > 0)
IsRounded(hundredths, num, den) == 2 * Abs(100 * num - hundredths * den) <= den

\* C19: requirement_coverage_score is (number of test cases / (|fields| +
\* |edge_cases|)) * 10 rounded to 2 decimals, and 0 when |fields| +
\* |edge_cases| = 0, as for a requirement with only roles.
C19_CoverageScore ==
    Measured =>
        LET elements == Len(request["fields"].v) + Len(request["edge_cases"].v) IN
        IF elements = 0 THEN metrics.requirement_coverage_score = 0
        ELSE IsRounded(metrics.requirement_coverage_score, 10 * Len(session_cases), elements)

C19_Witness ==
    /\ Measured
    /\ Len(request["fields"].v) + Len(request["edge_cases"].v) = 0
    /\ Len(request["roles"].v) > 0
    /\ Len(session_cases) > 0
    /\ metrics.requirement_coverage_score = 0

\* the list holds a case of the kind
HasKind(test_cases, kind) ==
    \E i \in 1..Len(test_cases) :
        "type" \in DOMAIN test_cases[i] /\ test_cases[i].type = kind

\* the elements whose text occurs in some title
Occurring(elements, test_cases) ==
    {i \in 1..Len(elements) :
        \E j \in 1..Len(test_cases) :
            "title" \in DOMAIN test_cases[j] /\ TitleHolds(test_cases[j].title, elements[i])}

\* C20: quality_score is the sum, rounded to 2 decimals, of four terms: 30
\* with both a Positive and a Negative case, 15 with one of the two kinds, 0
\* with neither; 20 with a Boundary case; 25 times the fraction of fields
\* occurring in some title; 25 times the fraction of edge_cases occurring in
\* some title; the term of an empty fields or edge_cases sequence is 0.
C20_QualityIsSumOfTerms ==
    Measured =>
        LET fields == request["fields"].v
            edge_cases == request["edge_cases"].v
            positive == HasKind(session_cases, "Positive")
            negative == HasKind(session_cases, "Negative")
            kinds == IF positive /\ negative THEN 30
                     ELSE IF positive # negative THEN 15 ELSE 0
            boundary == IF HasKind(session_cases, "Boundary") THEN 20 ELSE 0
            f == IF Len(fields) = 0 THEN 1 ELSE Len(fields)
            m == IF Len(edge_cases) = 0 THEN 1 ELSE Len(edge_cases)
            fieldShare == 25 * Cardinality(Occurring(fields, session_cases)) * m
            edgeShare == 25 * Cardinality(Occurring(edge_cases, session_cases)) * f
        IN IsRounded(metrics.quality_score,
                     (kinds + boundary) * f * m + fieldShare + edgeShare, f * m)

C20_Witness ==
    /\ Measured
    /\ path = "ai"
    /\ request["fields"].v = <<email, password>>
    /\ request["edge_cases"].v = <<sql_injection>>
    /\ session_cases = <<AiWorkflow, AiBoundary>>
    /\ metrics.quality_score = 3250

\* the rule text is one for which a Boundary case is due
BoundaryDue(rule) == NamesMinOrMax(rule) /\ HasDigitToken(rule)

\* the position of the Negative case of the j-th validation entry
NegativeAt(j) ==
    Len(Fields) + j + Cardinality({h \in 1..(j - 1) : BoundaryDue(Validations[h][2])})

\* the position of the first edge-case case, less one
EdgeBase == Len(session_cases) - Len(Roles) - Len(EdgeCases)

\* C21: every case of a synthesized list has a kind in Positive, Negative,
\* Boundary and the title of its phase: "Valid <feature> with correct <field>"
\* (Positive) for a field, "Invalid <feature> - <field> fails <rule>"
\* (Negative) for a validation entry, "<feature> with <edge_case>" (Negative)
\* for an edge case, "<feature> access for <role> role" (Positive) for a role.
C21_KindAndTitleOfPhase ==
    Synthesized =>
        /\ \A i \in 1..Len(session_cases) :
               session_cases[i].type \in {"Positive", "Negative", "Boundary"}
        /\ \A i \in 1..Len(Fields) :
               /\ session_cases[i].type = "Positive"
               /\ session_cases[i].title = <<"V","a","l","i","d"," ">> \o Feature \o <<" ","w","i","t","h"," ","c","o","r","r","e","c","t"," ">> \o Fields[i]
        /\ \A j \in 1..Len(Validations) :
               /\ session_cases[NegativeAt(j)].type = "Negative"
               /\ session_cases[NegativeAt(j)].title
                      = <<"I","n","v","a","l","i","d"," ">> \o Feature \o <<" ","-"," ">> \o Validations[j][1]
                            \o <<" ","f","a","i","l","s"," ">> \o Validations[j][2]
        /\ \A j \in 1..Len(EdgeCases) :
               /\ session_cases[EdgeBase + j].type = "Negative"
               /\ session_cases[EdgeBase + j].title = Feature \o <<" ","w","i","t","h"," ">> \o EdgeCases[j]
        /\ \A j \in 1..Len(Roles) :
               /\ session_cases[EdgeBase + Len(EdgeCases) + j].type = "Positive"
               /\ session_cases[EdgeBase + Len(EdgeCases) + j].title
                      = Feature \o <<" ","a","c","c","e","s","s"," ","f","o","r"," ">> \o Roles[j] \o <<" ","r","o","l","e">>

C21_Witness ==
    /\ pc = "generated"
    /\ path = "template"
    /\ request = LoginExample
    /\ session_cases[3].title = <<"I","n","v","a","l","i","d"," ","L","o","g","i","n"," ","-"," ","p","a","s","s","w","o","r","d"," ","f","a","i","l","s"," ","m","i","n"," ","8"," ","c","h","a","r","s">>
    /\ session_cases[5].type = "Negative"
    /\ session_cases[5].title = <<"L","o","g","i","n"," ","w","i","t","h"," ","s","q","l"," ","i","n","j","e","c","t","i","o","n">>
    /\ session_cases[6].type = "Positive"
    /\ session_cases[6].title = <<"L","o","g","i","n"," ","a","c","c","e","s","s"," ","f","o","r"," ","a","d","m","i","n"," ","r","o","l","e">>

\* C22: the synthesizer, the traceability builder and the metrics calculator
\* leave their arguments as they were: no call changes the requirement
\* mapping, and no call of create_traceability_matrix or
\* calculate_coverage_metrics changes the test-case list, on success and on
\* the error path.
C22_ArgumentsUnchanged ==
    [][(pc # "idle") =>
           /\ request' = request
           /\ (pc' \in {"scripted", "traced", "measured", "covered"}
                  => session_cases' = session_cases)]_vars

C22_Witness ==
    /\ pc = "measured"
    /\ request = LoginExample
    /\ Len(session_cases) = 6
    /\ "mapping" \in DOMAIN matrix
    /\ "total_cases" \in DOMAIN metrics

\* generate_selenium_java has returned
Scripted == pc \in {"scripted", "traced", "measured", "covered"}

\* C23: on a requirement with missing required keys generate_selenium_java
\* does not raise: it returns the comment "// Error: " followed by the
\* message of the synthesizer's sentinel, and no class text; on a valid
\* requirement it returns the script text and no error comment.
C23_ScriptErrorComment ==
    Scripted =>
        /\ "raised" \notin DOMAIN java_code
        /\ LacksKey(request) =>
               /\ "error" \in DOMAIN java_code
               /\ "class_name" \notin DOMAIN java_code
               /\ IsSentinel(session_cases)
               /\ java_code.error = <<"// Error: ">> \o session_cases[1].error
               /\ java_code.error[2] = "Missing required keys: "
        /\ path # "invalid" =>
               /\ "class_name" \in DOMAIN java_code
               /\ "error" \notin DOMAIN java_code

C23_Witness ==
    /\ pc = "scripted"
    /\ DOMAIN request = {"feature", "fields"}
    /\ "error" \in DOMAIN java_code
    /\ java_code.error
           = <<"// Error: ", "Missing required keys: ", "validations", ", ", "roles", ", ",
               "edge_cases">>

\* the name lower-cased, each space replaced by an underscore
IdOfName(name) ==
    [i \in 1..Len(name) |-> IF name[i] = " " THEN "_" ELSE LowerChar(name[i])]

\* the name without its spaces
RECURSIVE Unspaced(_)
Unspaced(name) ==
    IF Len(name) = 0 THEN <<>>
    ELSE IF name[1] = " " THEN Unspaced(Tail(name))
    ELSE <<name[1]>> \o Unspaced(Tail(name))

\* every statement of the script that enters a value into an element
EnteringStatements(script) ==
    script.field_interactions \o script.validation_tests \o script.boundary_tests

\* how many elements of the sequence equal x
Occurrences(seq, x) == Cardinality({i \in 1..Len(seq) : seq[i] = x})

WellFormed(d) == ~LacksKey(d) /\ ~IllTyped(d)

\* the number of generate_test_cases calls made so far
CallsMade == IF pc = "idle" THEN 0 ELSE IF pc = "regenerated" THEN 2 ELSE 1

\* C25: generate_test_cases validates first (invalid input returns the
\* sentinel and the AI backend is never called), then makes one AI attempt
\* only if a backend was initialized, then runs the template: when the AI
\* attempt raises the result is exactly the list the template synthesizer
\* returns with no backend, and with no backend it is always the template
\* list.
C25_ValidateThenAiThenTemplate ==
    pc # "idle" =>
        /\ ~WellFormed(request) => (ai_calls = 0 /\ IsSentinel(session_cases))
        /\ (WellFormed(request) /\ engine_genai) => ai_calls = CallsMade
        /\ ~engine_genai => ai_calls = 0
        /\ (WellFormed(request) /\ engine_genai /\ ~ai_backend.raises) =>
               session_cases = ai_backend.cases
        /\ (WellFormed(request) /\ (~engine_genai \/ ai_backend.raises)) =>
               /\ session_cases = GenerateTestCasesTemplate(request)
               /\ ContiguousIds(session_cases)
               /\ Len(session_cases) >= Len(Fields) + Len(Validations) + Len(EdgeCases)
                                         + Len(Roles)

C25_Witness ==
    /\ pc = "generated"
    /\ engine_genai
    /\ ai_backend.raises
    /\ ai_calls = 1
    /\ request = LoginExample
    /\ Len(session_cases) = 6
    /\ session_cases[1].title = <<"V","a","l","i","d"," ","L","o","g","i","n"," ","w","i","t","h"," ","c","o","r","r","e","c","t"," ","e","m","a","i","l">>

\* the number an id "TC_NNN" reads
IdNumber(tc_id) ==
    100 * DigitValue(tc_id[4]) + 10 * DigitValue(tc_id[5]) + DigitValue(tc_id[6])

\* C26: in a synthesized list every Boundary case comes right after the
\* Negative case of the same validation entry and carries the next id, and a
\* validation entry has at most one Boundary case, also when its rule names
\* both a minimum and a maximum.
C26_BoundaryFollowsNegative ==
    Synthesized =>
        /\ \A i \in 1..Len(session_cases) :
               session_cases[i].type = "Boundary" =>
                   /\ i > 1
                   /\ session_cases[i - 1].type = "Negative"
                   /\ IdNumber(session_cases[i].tc_id) = IdNumber(session_cases[i - 1].tc_id) + 1
                   /\ \E j \in 1..Len(Validations) :
                          /\ i - 1 \in NegativeCasesOf(session_cases, Validations[j][1],
                                                       Validations[j][2])
                          /\ i \in BoundaryCasesOf(session_cases, Validations[j][1],
                                                   Validations[j][2])
        /\ \A j \in 1..Len(Validations) :
               Cardinality(BoundaryCasesOf(session_cases, Validations[j][1], Validations[j][2]))
                   <= 1

C26_Witness ==
    /\ pc = "generated"
    /\ path = "template"
    /\ Len(Fields) = 1
    /\ Validations = <<<<password, min_1_max_100>>, <<email, min_8_chars>>>>
    /\ session_cases[2].type = "Negative"
    /\ session_cases[3].type = "Boundary"
    /\ session_cases[4].type = "Negative"
    /\ session_cases[5].type = "Boundary"
    /\ CountType(session_cases, "Boundary") = 2

\* the id list the entries hold for the element
IdsFor(entries, element) ==
    (CHOOSE e \in {entries[k] : k \in 1..Len(entries)} : e[1] = element)[2]

\* C27: for a synthesized list and the matrix built from the same
\* requirement, every field and every edge case has a non-empty id list that
\* holds the id of the case generated for that element.
C27_EveryElementCovered ==
    (Synthesized /\ Traced) =>
        /\ \A i \in 1..Len(Fields) :
               /\ Fields[i] \in KeysOf(matrix.mapping.fields_covered)
               /\ session_cases[i].tc_id
                      \in ElementsOf(IdsFor(matrix.mapping.fields_covered, Fields[i]))
        /\ \A j \in 1..Len(EdgeCases) :
               /\ EdgeCases[j] \in KeysOf(matrix.mapping.edge_cases_covered)
               /\ session_cases[EdgeBase + j].tc_id
                      \in ElementsOf(IdsFor(matrix.mapping.edge_cases_covered, EdgeCases[j]))

C27_Witness ==
    /\ pc = "traced"
    /\ path = "template"
    /\ "mapping" \in DOMAIN matrix
    /\ Fields = <<password, email>>
    /\ EdgeCases = <<empty_fields>>
    /\ Len(IdsFor(matrix.mapping.fields_covered, email)) >= 1
    /\ Len(IdsFor(matrix.mapping.edge_cases_covered, empty_fields)) = 1

\* C28: for a synthesized list of a requirement with at least one field and
\* at least one edge case, quality_score is 100 when some validation entry
\* produced a Boundary case and 80 otherwise, whatever the number of roles.
C28_QualityIs80Or100 ==
    (Synthesized /\ Measured /\ Len(Fields) >= 1 /\ Len(EdgeCases) >= 1) =>
        metrics.quality_score =
            IF \E j \in 1..Len(Validations) : BoundaryDue(Validations[j][2])
            THEN 10000 ELSE 8000

C28_Witness ==
    /\ Synthesized
    /\ Measured
    /\ Len(Fields) >= 1
    /\ Len(EdgeCases) >= 1
    /\ Len(Roles) = 0
    /\ Len(Validations) = 1
    /\ ~BoundaryDue(Validations[1][2])
    /\ metrics.quality_score = 8000

\* the field list metrics.calculate_coverage is to read
FieldsToCover ==
    IF "functional_fields" \in DOMAIN request THEN request["functional_fields"].v
    ELSE IF "fields" \in DOMAIN request THEN request["fields"].v
    ELSE <<>>

\* C29: metrics.calculate_coverage reads the field list from
\* functional_fields when present and from fields otherwise; its coverage is
\* min(100, tests / (2 * |fields|) * 100) rounded to 2 decimals, 0 without
\* fields, always in [0, 100]; its test-case count is the length of the list.
C29_DashboardCoverage ==
    pc = "covered" =>
        LET n == Len(FieldsToCover)
            tests == Len(session_cases)
        IN /\ coverage.total_fields = n
           /\ coverage.total_test_cases = tests
           /\ coverage.requirement_coverage \in 0..10000
           /\ IF n = 0 THEN coverage.requirement_coverage = 0
              ELSE IF tests >= 2 * n THEN coverage.requirement_coverage = 10000
              ELSE IsRounded(coverage.requirement_coverage, 100 * tests, 2 * n)

C29_Witness ==
    /\ pc = "covered"
    /\ "fields" \in DOMAIN request
    /\ Len(request["fields"].v) = 1
    /\ Len(session_cases) = 5
    /\ coverage.requirement_coverage = 10000

\* the text holds an unsubstituted placeholder
HoldsPlaceholder(text) == \E i \in 1..Len(text) : text[i] \in {"{", "}"}

\* C30: every step of every synthesized case has its placeholders
\* substituted: the last step of a role case reads "Perform <feature>
\* operation" with the feature name, as the other steps do for role and
\* feature.
C30_StepsSubstituted ==
    Synthesized =>
        /\ \A i \in 1..Len(session_cases) :
               \A k \in 1..Len(session_cases[i].steps) :
                   ~HoldsPlaceholder(session_cases[i].steps[k])
        /\ \A j \in 1..Len(Roles) :
               LET steps == session_cases[EdgeBase + Len(EdgeCases) + j].steps
               IN steps[Len(steps)] = <<"P","e","r","f","o","r","m"," ">> \o Feature \o <<" ","o","p","e","r","a","t","i","o","n">>


====
